---- MODULE Spec2Model ----
(***************************************************************************)
(* Model of sync_canva_design.py: extract_design_id (URL -> design id),    *)
(* download_canva_design (one HTTP POST, then a file write) and main.      *)
(*                                                                         *)
(* A Python str is a sequence of tokens.  A token is either a delimiter    *)
(* character ("/", "?", "#", "&", "=", ";", ":", "[", "]", "+", ".", " ")  *)
(* or an atom that stands for a run of other characters ("design",         *)
(* "utm_content", "A", "%42", ...).  '' is << >>.  None is the record      *)
(* NoneVal; a str s is Str(s).                                             *)
(***************************************************************************)
EXTENDS Integers, Sequences, FiniteSets, TLC

VARIABLES
    inp,        \* SpecExtract: how the input URL was put together
    url,        \* SpecExtract: the argument canva_url
    xpc,        \* SpecExtract: "call" before extract_design_id, "done" after
    xres,       \* SpecExtract: what extract_design_id did
    pc,         \* Spec: position in main / download_canva_design
    caller,     \* Spec: "main" or "direct" (download_canva_design called)
    args,       \* Spec: argparse namespace and os.environ of this run
    api_key,    \* Spec: main's api_key / the function's parameter
    design_id,  \* Spec: main's design_id / the function's parameter
    request,    \* Spec: the request handed to requests.post
    response,   \* Spec: what requests.post produced
    output_path,\* Spec: download_canva_design's local output_path
    ret,        \* Spec: download_canva_design's return value
    fs,         \* Spec: files, path -> content (File) or absent
    dirs,       \* Spec: directories that exist
    log,        \* Spec: records logged during this run
    hist        \* Spec: history of this run and of the files (observers)

vars == <<inp, url, xpc, xres, pc, caller, args, api_key, design_id, request,
          response, output_path, ret, fs, dirs, log, hist>>

extractVars == <<inp, url, xpc, xres>>
mainVars == <<pc, caller, args, api_key, design_id, request, response,
              output_path, ret, fs, dirs, log, hist>>

----------------------------------------------------------------------------
(* Bounds of the model *)

MaxSegs == 2        \* path segments of a generated URL
MaxPairs == 2       \* '&'-separated fields of a generated query string
MaxRuns == 2        \* calls of main / download_canva_design in a behaviour

----------------------------------------------------------------------------
(* Python values *)

NoneVal == [isNone |-> TRUE, val |-> << >>]
Str(s) == [isNone |-> FALSE, val |-> s]

\* Python truthiness of an Optional[str]: None and '' are falsy
Truthy(v) == (~v.isNone) /\ v.val # << >>

\* logging records
Info(m) == [level |-> "INFO", msg |-> m]
Error(m) == [level |-> "ERROR", msg |-> m]

----------------------------------------------------------------------------
(* str methods *)

\* s.find(c, from): the first position >= from holding c; 0 when there is none
Find(s, c, from) ==
    LET hits == {i \in from..Len(s) : s[i] = c}
    IN  IF hits = {} THEN 0 ELSE CHOOSE i \in hits : \A j \in hits : i <= j

\* s.rfind(c): the last position holding c; 0 when there is none
RFind(s, c) ==
    LET hits == {i \in 1..Len(s) : s[i] = c}
    IN  IF hits = {} THEN 0 ELSE CHOOSE i \in hits : \A j \in hits : i >= j

\* s.split(c)
RECURSIVE Split(_, _)
Split(s, c) ==
    LET i == Find(s, c, 1)
    IN  IF i = 0 THEN <<s>>
        ELSE <<SubSeq(s, 1, i - 1)>> \o Split(SubSeq(s, i + 1, Len(s)), c)

\* s.split(c, 1)
Split1(s, c) ==
    LET i == Find(s, c, 1)
    IN  IF i = 0 THEN <<s>>
        ELSE <<SubSeq(s, 1, i - 1), SubSeq(s, i + 1, Len(s))>>

\* list.index(x): the first position holding x; 0 when x is not in the list
ListIndex(l, x) ==
    LET hits == {i \in 1..Len(l) : l[i] = x}
    IN  IF hits = {} THEN 0 ELSE CHOOSE i \in hits : \A j \in hits : i <= j

----------------------------------------------------------------------------
(* urllib.parse.urlparse *)

\* atoms made only of scheme characters (letters, digits, "+-."); every
\* other token of the model holds a character that is none of these
SchemeAtoms ==
    {"https", "http", "ftp", "design", "view", "export", "designs", "v1",
     "api.canva.com", "all", "h", "p", "x", "W", "w", "out", "a", "b", "e", "k",
     "A", "B", "E", "K", "pdf", "png", "jpg", "PDF", "PNG", "JPG", "+", "."}

\* the scheme atoms that start with an ASCII letter
AlphaAtoms == SchemeAtoms \ {"+", "."}

\* str.lower() on one token
LowerAtom(t) ==
    CASE t = "A" -> "a" [] t = "B" -> "b" [] t = "E" -> "e" [] t = "K" -> "k"
      [] t = "W" -> "w"
      [] t = "PDF" -> "pdf" [] t = "PNG" -> "png" [] t = "JPG" -> "jpg"
      [] t = "Bearer " -> "bearer "
      [] OTHER -> t

uses_params == {<< >>, <<"http">>, <<"https">>, <<"ftp">>}

\* url.lstrip(_WHATWG_C0_CONTROL_OR_SPACE): leading spaces are dropped
RECURSIVE LStrip(_)
LStrip(u) == IF u # << >> /\ Head(u) = " " THEN LStrip(Tail(u)) ELSE u

\* _splitnetloc(url, 2): the netloc ends at the first of '/', '?', '#'
splitnetloc(u) ==
    LET ds == {i \in 3..Len(u) : u[i] \in {"/", "?", "#"}}
        delim == IF ds = {} THEN Len(u) + 1
                 ELSE CHOOSE i \in ds : \A j \in ds : i <= j
    IN  <<SubSeq(u, 3, delim - 1), SubSeq(u, delim, Len(u))>>

\* the one-character atoms that are hexadecimal digits
HexAtoms == {"a", "b", "e", "A", "B", "E"}

\* ipaddress.IPv6Address._ip_int_from_string on the ':'-separated parts:
\* 3 to 9 parts, at most one '::', a leading or trailing ':' only as part
\* of it, 8 hextets without it and fewer with it, each of 1 to 4 digits
ValidHextetParts(parts) ==
    LET n == Len(parts)
        skips == {i \in 2..(n - 1) : parts[i] = << >>}
        skip == CHOOSE i \in skips : TRUE
        hi == (skip - 1) - (IF parts[1] = << >> THEN 1 ELSE 0)
        lo == (n - skip) - (IF parts[n] = << >> THEN 1 ELSE 0)
    IN  /\ n >= 3
        /\ n <= 9
        /\ \A i \in 1..n : Len(parts[i]) <= 4
        /\ Cardinality(skips) <= 1
        /\ IF skips = {}
           THEN n = 8 /\ parts[1] # << >> /\ parts[n] # << >>
           ELSE /\ parts[1] = << >> => skip = 2
                /\ parts[n] = << >> => skip = n - 1
                /\ hi + lo <= 7

\* ipaddress.ip_address(host) is an IPv6Address: hextets, then an optional
\* '%' and a scope id that is not empty and holds no further '%'
IsIPv6(host) ==
    LET k == Find(host, "%42", 1)
        addr == IF k = 0 THEN host ELSE SubSeq(host, 1, k - 1)
    IN  /\ Find(host, "%42", k + 1) = 0
        /\ \A i \in 1..Len(addr) : addr[i] \in HexAtoms \cup {":"}
        /\ ValidHextetParts(Split(addr, ":"))

\* re.match(r"\Av[a-fA-F0-9]+\..+\Z", host)
IsIPvFuture(host) ==
    LET d == Find(host, ".", 1)
    IN  /\ host[1] = "v1"
        /\ d # 0
        /\ d < Len(host)
        /\ \A i \in 2..(d - 1) : host[i] \in HexAtoms

\* _check_bracketed_host(host) raises ValueError
BadBracketedHost(host) ==
    IF host # << >> /\ host[1] \in {"v1", "view"}
    THEN ~IsIPvFuture(host)
    ELSE ~IsIPv6(host)

\* netloc.partition('[')[2].partition(']')[0]
BracketedHost(netloc) ==
    LET o == Find(netloc, "[", 1)
        c == Find(netloc, "]", o + 1)
    IN  IF c = 0 THEN SubSeq(netloc, o + 1, Len(netloc))
        ELSE SubSeq(netloc, o + 1, c - 1)

\* urlsplit raises ValueError: one of '[' and ']' without the other, or
\* both around something that is no IPv6 or IPvFuture address
NetlocRaises(netloc) ==
    LET open == Find(netloc, "[", 1) # 0
        close == Find(netloc, "]", 1) # 0
    IN  \/ open # close
        \/ open /\ close /\ BadBracketedHost(BracketedHost(netloc))

\* _splitparams(url) where ';' is in url: the position of the ';' that
\* starts the params of the last path segment; 0 when that segment has none
ParamsIndex(u) ==
    IF Find(u, "/", 1) # 0 THEN Find(u, ";", RFind(u, "/"))
    ELSE Find(u, ";", 1)

\* urlparse, last step: if scheme in uses_params and ';' in url:
\* url, params = _splitparams(url)
ParseParams(scheme, netloc, u4, query, fragment) ==
    LET i == IF scheme \in uses_params /\ Find(u4, ";", 1) # 0
             THEN ParamsIndex(u4) ELSE 0
    IN  [raised |-> NetlocRaises(netloc),
         scheme |-> scheme, netloc |-> netloc,
         path |-> IF i = 0 THEN u4 ELSE SubSeq(u4, 1, i - 1),
         params |-> IF i = 0 THEN << >> ELSE SubSeq(u4, i + 1, Len(u4)),
         query |-> query, fragment |-> fragment]

\* urlsplit: if '?' in url: url, query = url.split('?', 1)
ParseQuery(scheme, netloc, u3, fragment) ==
    LET q == Find(u3, "?", 1)
    IN  ParseParams(scheme, netloc,
                    IF q = 0 THEN u3 ELSE SubSeq(u3, 1, q - 1),
                    IF q = 0 THEN << >> ELSE SubSeq(u3, q + 1, Len(u3)),
                    fragment)

\* urlsplit: if '#' in url: url, fragment = url.split('#', 1)
ParseFragment(scheme, netloc, u2) ==
    LET f == Find(u2, "#", 1)
    IN  ParseQuery(scheme, netloc,
                   IF f = 0 THEN u2 ELSE SubSeq(u2, 1, f - 1),
                   IF f = 0 THEN << >> ELSE SubSeq(u2, f + 1, Len(u2)))

\* urlsplit: if url[:2] == '//': netloc, url = _splitnetloc(url, 2)
ParseNetloc(scheme, u1) ==
    LET nl == IF Len(u1) >= 2 /\ u1[1] = "/" /\ u1[2] = "/"
              THEN splitnetloc(u1) ELSE << << >>, u1>>
    IN  ParseFragment(scheme, nl[1], nl[2])

\* urlsplit: the scheme is what precedes the first ':' when the url starts
\* with a letter and all of it is made of scheme characters
ParseScheme(u0) ==
    LET i == Find(u0, ":", 1)
        hasScheme == /\ i > 1
                     /\ u0[1] \in AlphaAtoms
                     /\ \A k \in 1..(i - 1) : u0[k] \in SchemeAtoms
    IN  IF hasScheme
        THEN ParseNetloc([k \in 1..(i - 1) |-> LowerAtom(u0[k])],
                         SubSeq(u0, i + 1, Len(u0)))
        ELSE ParseNetloc(<< >>, u0)

\* urlparse(url) for a str: the six components, or raised (ValueError)
urlparse(u0) == ParseScheme(LStrip(u0))

----------------------------------------------------------------------------
(* urllib.parse.parse_qs *)

\* unquote(s.replace('+', ' ')) on one token
UnquoteAtom(t) == CASE t = "+" -> " " [] t = "%42" -> "B" [] OTHER -> t

Unquote(s) == [k \in 1..Len(s) |-> UnquoteAtom(s[k])]

\* parse_qsl(qs), keep_blank_values=False, strict_parsing=False:
\* the (name, value) pairs of the fields that have an '=' and a value
RECURSIVE QslOfFields(_)
QslOfFields(fields) ==
    IF fields = << >> THEN << >>
    ELSE LET nv == Split1(Head(fields), "=")
             rest == QslOfFields(Tail(fields))
         IN  IF Head(fields) = << >> THEN rest
             ELSE IF Len(nv) # 2 THEN rest
             ELSE IF Len(nv[2]) > 0
                  THEN <<[name |-> Unquote(nv[1]), value |-> Unquote(nv[2])]>>
                       \o rest
                  ELSE rest

parse_qsl(qs) == IF qs = << >> THEN << >> ELSE QslOfFields(Split(qs, "&"))

\* parse_qs(qs)[name]: the values of name in order; << >> when name is no key
RECURSIVE ValuesOf(_, _)
ValuesOf(pairs, name) ==
    IF pairs = << >> THEN << >>
    ELSE (IF Head(pairs).name = name THEN <<Head(pairs).value>> ELSE << >>)
         \o ValuesOf(Tail(pairs), name)

parse_qs(qs, name) == ValuesOf(parse_qsl(qs), name)

----------------------------------------------------------------------------
(* extract_design_id *)

Marker == <<"design">>
QueryParam == <<"utm_content">>

Returned(v, l) == [raised |-> FALSE, ret |-> v, log |-> l]
Raised(l) == [raised |-> TRUE, ret |-> NoneVal, log |-> l]

\* design_index: path_parts.index('design') + 1, as a position of path_parts
DesignIndexLast(path_parts) ==
    (CHOOSE i \in 1..Len(path_parts) :
        /\ path_parts[i] = Marker
        /\ \A j \in 1..Len(path_parts) : path_parts[j] = Marker => j <= i) + 1

DesignIndex(path_parts) == ListIndex(path_parts, Marker) + 1

\* query_params['utm_content'][0]
FirstValueLast(values) == values[Len(values)]

FirstValue(values) == values[1]

\* if 'utm_content' in query_params: return its first value, else None
ExtractFromQuery(values) ==
    IF values # << >>
    THEN Returned(Str(FirstValue(values)), <<Info("extracted_from_query")>>)
    ELSE Returned(NoneVal, <<Error("could_not_extract")>>)

\* if 'design' in path_parts: ... return path_parts[design_index]
ExtractFromPath(path_parts, query) ==
    IF ListIndex(path_parts, Marker) # 0
       /\ DesignIndex(path_parts) <= Len(path_parts)
    THEN Returned(Str(path_parts[DesignIndex(path_parts)]),
                  <<Info("extracted")>>)
    ELSE ExtractFromQuery(parse_qs(query, QueryParam))

\* path_parts = parsed_url.path.split('/')
ExtractParsed(parsed_url) ==
    IF parsed_url.raised THEN Raised(<< >>)
    ELSE ExtractFromPath(Split(parsed_url.path, "/"), parsed_url.query)

\* the body of the try block; urlparse(None) gives bytes components, on
\* which split('/') raises TypeError
ExtractBody(canva_url) ==
    IF canva_url.isNone THEN Raised(<< >>)
    ELSE ExtractParsed(urlparse(canva_url.val))

\* the function without its except clause
ExtractNoCatch(canva_url) == ExtractBody(canva_url)

\* try: ... except Exception: log, return None
Caught(r) ==
    IF r.raised
    THEN Returned(NoneVal, r.log \o <<Error("error_extracting")>>)
    ELSE r

extract_design_id(canva_url) == Caught(ExtractBody(canva_url))

----------------------------------------------------------------------------
(* Files, requests and responses *)

FileAbsent == [exists |-> FALSE, data |-> << >>]
File(d) == [exists |-> TRUE, data |-> d]

\* response bodies and HTTP statuses the service may answer with
Payloads == {<<1, 2>>, <<3>>}
Statuses == {200, 304, 404, 500}
\* statuses of a redirect that requests follows: 302 goes on with a GET,
\* 307 sends the POST again
RedirectStatuses == {302, 307}
\* requests.Session.max_redirects, the limit requests.post works with
DEFAULT_REDIRECT_LIMIT == 30
\* how many redirects the service answers with before its final answer
RedirectCounts == {0, 1, DEFAULT_REDIRECT_LIMIT + 1}

NoRequest ==
    [sent |-> FALSE, api_url |-> << >>, authorization |-> << >>,
     content_type |-> "", json |-> [format |-> "", pages |-> ""]]
NoResponse == [kind |-> "none", status_code |-> 0, content |-> << >>]
Response(st, body) ==
    [kind |-> "response", status_code |-> st, content |-> body]
\* requests.post raised a RequestException that carries no response
ConnectionError == [kind |-> "error", status_code |-> 0, content |-> << >>]
\* requests.post raised TooManyRedirects, which carries the last redirect
TooManyRedirects(st) ==
    [kind |-> "too_many_redirects", status_code |-> st, content |-> << >>]

\* str.upper() and str.lower() on the format names
Upper(f) ==
    CASE f \in {"pdf", "PDF"} -> "PDF"
      [] f \in {"png", "PNG"} -> "PNG"
      [] f \in {"jpg", "JPG"} -> "JPG"

Lower(f) == LowerAtom(f)

\* f"{design_id}.{format.lower()}"
OutputFilename(id, format) == id \o <<".", Lower(format)>>

\* os.path.join(a, p) on POSIX: an absolute p replaces a; otherwise the two
\* are joined with one '/', which an empty a or a trailing '/' makes needless
PathJoin(a, p) ==
    IF p # << >> /\ Head(p) = "/" THEN p
    ELSE IF a = << >> \/ a[Len(a)] = "/" THEN a \o p
    ELSE a \o <<"/">> \o p

\* os.path.join(output_dir, output_filename)
OutputPath(output_dir, id, format) ==
    PathJoin(output_dir, OutputFilename(id, format))

\* f"https://api.canva.com/v1/designs/{design_id}/export"
ApiUrl(id) ==
    <<"https", ":", "/", "/", "api.canva.com", "/", "v1", "/", "designs",
      "/">> \o id \o <<"/", "export">>

\* the request download_canva_design builds
BuildRequest(id, key, format) ==
    [sent |-> FALSE,
     api_url |-> ApiUrl(id),
     authorization |-> <<"Bearer ">> \o key,
     content_type |-> "application/json",
     json |-> [format |-> Upper(format), pages |-> "all"]]

\* response.raise_for_status() raises HTTPError for 4xx and 5xx
RaisesForStatus(st) == 400 <= st /\ st < 600

\* open(output_path, 'wb') truncates; 'ab' would keep the data
OpenAppend(old) == old

OpenTruncate(old) == << >>

\* api_key = args.api_key or os.environ.get("CANVA_API_KEY")
PyOr(a, b) == IF Truthy(a) THEN a ELSE b

\* if not design_id
IdMissing(id) == ~Truthy(id)

----------------------------------------------------------------------------
(* Inputs of main and of a direct call of download_canva_design *)

UrlWithId == Str(<<"https", ":", "/", "/", "h", "/", "design", "/", "A",
                   "/", "view">>)
UrlEmptyId == Str(<<"https", ":", "/", "/", "h", "/", "design", "/">>)
UrlQueryId == Str(<<"https", ":", "/", "/", "h", "/", "A", "?",
                    "utm_content", "=", "B">>)
UrlNoId == Str(<<"https", ":", "/", "/", "h", "/", "A">>)
UrlAbsId == Str(<<"https", ":", "/", "/", "h", "/", "x", "?",
                  "utm_content", "=", "/", "W">>)
MainUrls == {UrlWithId, UrlEmptyId, UrlQueryId, UrlNoId, UrlAbsId}

ArgKeys == {NoneVal, Str(<< >>), Str(<<"K">>)}     \* --api-key
EnvKeys == {NoneVal, Str(<<"E">>)}                 \* CANVA_API_KEY
CliFormats == {"pdf", "png", "jpg"}                \* choices of --format
MainFormats == {"pdf", "jpg"}                      \* those the runs are given
DirectFormats == {"pdf", "PDF"}
DirectIds == {<<"A">>}
DefaultDir == <<"canva_designs">>                  \* default of --output-dir
DirectDirs == {DefaultDir, <<"out", "/">>}
OutputDirs == {DefaultDir} \cup DirectDirs

AllIds == {<<"A">>, <<"B">>, << >>, <<"/", "W">>}
AllPaths ==
    {OutputPath(d, id, f) :
        d \in OutputDirs, id \in AllIds, f \in MainFormats \cup DirectFormats}

NoArgs == [url |-> NoneVal, api_key |-> NoneVal, env |-> NoneVal,
           output_dir |-> DefaultDir, format |-> "pdf"]

NoHist ==
    [runs |-> 0, posts |-> 0, wire |-> 0, resent |-> 0, writes |-> 0,
     events |-> << >>,
     pre |-> [p \in AllPaths |-> FileAbsent],
     lastOk |-> [p \in AllPaths |-> FileAbsent]]

IdleMain ==
    /\ pc = "idle"
    /\ caller = "main"
    /\ args = NoArgs
    /\ api_key = NoneVal
    /\ design_id = NoneVal
    /\ request = NoRequest
    /\ response = NoResponse
    /\ output_path = << >>
    /\ ret = NoneVal
    /\ fs = [p \in AllPaths |-> FileAbsent]
    /\ log = << >>
    /\ hist = NoHist

----------------------------------------------------------------------------
(* SpecExtract: extract_design_id applied to generated inputs.             *)
(* An input is None, or the str                                            *)
(*   prefix  "/" seg_1 ... "/" seg_n  [";" params]  ["?" f_1 "&" ... f_m]  *)
(*   ["#" fragment]                                                        *)
(* inp records the parts, url is their concatenation.                      *)

PrefixNone == << >>
PrefixHttps == <<"https", ":", "/", "/", "h">>
PrefixIPv6 == <<"https", ":", "/", "/", "[", "a", ":", ":", "b", "]">>
PrefixBad == <<"https", ":", "/", "/", "[", "h">>   \* '[' without ']'
PrefixBadHost == <<"https", ":", "/", "/", "[", "h", "]">>  \* no address
Prefixes == {PrefixNone, PrefixHttps, PrefixIPv6, PrefixBad, PrefixBadHost}

SegChoices == {<< >>, <<"design">>, <<"A">>}

\* a query field: name, whether it has an '=', the value as written and
\* the value it stands for
Field(n, e, r, v) == [name |-> n, hasEq |-> e, rawValue |-> r, value |-> v]
FieldChoices ==
    { Field(<<"utm_content">>, TRUE, <<"A">>, <<"A">>),
      Field(<<"utm_content">>, TRUE, <<"B">>, <<"B">>),
      Field(<<"utm_content">>, TRUE, << >>, << >>),
      Field(<<"utm_content">>, FALSE, << >>, << >>),
      Field(<<"x">>, TRUE, <<"A">>, <<"A">>),
      Field(<<"utm_content">>, TRUE, <<"%42", "=", "+">>, <<"B", "=", " ">>) }

ParamChoices == {<< >>, <<";", "p">>}
FragChoices ==
    {<< >>,
     <<"#", "/", "design", "/", "B", "?", "utm_content", "=", "x">>}

SeqsUpTo(S, n) == UNION {[1..k -> S] : k \in 0..n}

Inputs ==
    [kind : {"str"}, prefix : Prefixes, segs : SeqsUpTo(SegChoices, MaxSegs),
     params : ParamChoices, fields : SeqsUpTo(FieldChoices, MaxPairs),
     frag : FragChoices]
    \cup
    [kind : {"none"}, prefix : {PrefixNone}, segs : {<< >>},
     params : {<< >>}, fields : {<< >>}, frag : {<< >>}]

RawField(f) == f.name \o (IF f.hasEq THEN <<"=">> \o f.rawValue ELSE << >>)

RECURSIVE PathOf(_)
PathOf(segs) ==
    IF segs = << >> THEN << >>
    ELSE <<"/">> \o Head(segs) \o PathOf(Tail(segs))

RECURSIVE JoinFields(_)
JoinFields(fields) ==
    IF fields = << >> THEN << >>
    ELSE RawField(Head(fields))
         \o (IF Tail(fields) = << >> THEN << >> ELSE <<"&">>)
         \o JoinFields(Tail(fields))

Build(i) ==
    IF i.kind = "none" THEN NoneVal
    ELSE Str(i.prefix \o PathOf(i.segs) \o i.params
             \o (IF i.fields = << >> THEN << >>
                 ELSE <<"?">> \o JoinFields(i.fields))
             \o i.frag)

InitExtract ==
    /\ inp \in Inputs
    /\ url = Build(inp)
    /\ xpc = "call"
    /\ xres = Returned(NoneVal, << >>)
    /\ IdleMain
    /\ dirs = {}

ExtractCall ==
    /\ xpc = "call"
    /\ xres' = extract_design_id(url)
    /\ xpc' = "done"
    /\ UNCHANGED <<inp, url>>
    /\ UNCHANGED mainVars

NextExtract == ExtractCall

SpecExtract == InitExtract /\ [][NextExtract]_vars

----------------------------------------------------------------------------
(* What a generated input holds, read off its parts (not parsed back) *)

\* the input is a str that urlparse accepts
ValidInput(i) == i.kind = "str" /\ i.prefix \notin {PrefixBad, PrefixBadHost}

\* The segments of the URL's path.  Without a scheme and authority, a str
\* that starts with "//" is a network-path reference: its first non-empty
\* position names the authority, and the path starts after it.
TrueSegs(i) ==
    IF i.prefix = PrefixNone /\ Len(i.segs) >= 2 /\ i.segs[1] = << >>
    THEN SubSeq(i.segs, 3, Len(i.segs))
    ELSE i.segs

\* position of the first segment equal to the marker; 0 when there is none
MarkerPos(i) == ListIndex(TrueSegs(i), Marker)

\* the marker is in the path and a further segment follows it
PathYields(i) == MarkerPos(i) # 0 /\ MarkerPos(i) < Len(TrueSegs(i))

\* the fields named utm_content that carry an '='
UtmFields(i) == SelectSeq(i.fields, LAMBDA f : f.name = QueryParam /\ f.hasEq)

\* the fields named utm_content, with or without '='
UtmNamed(i) == SelectSeq(i.fields, LAMBDA f : f.name = QueryParam)

\* the fields named utm_content whose value is not empty
UtmNonEmpty(i) ==
    SelectSeq(i.fields, LAMBDA f : f.name = QueryParam /\ f.value # << >>)

----------------------------------------------------------------------------
(* Claims about extract_design_id, checked under SpecExtract *)

\* C2: every non-absent value returned by extract_design_id is a non-empty
\* string, also when the marker 'design' is followed by an empty segment.
C2_ReturnedIdNonEmpty ==
    (xpc = "done" /\ ~xres.ret.isNone) => xres.ret.val # << >>

\* C4: when the path holds the marker followed by a further segment, the
\* function returns exactly the segment after the first marker, whatever the
\* query string is, and the query strategy is not consulted.
C4_PathStrategy ==
    (xpc = "done" /\ ValidInput(inp) /\ PathYields(inp)) =>
        /\ ~xres.raised
        /\ xres.ret = Str(TrueSegs(inp)[MarkerPos(inp) + 1])
        /\ xres.log = <<Info("extracted")>>

\* C4 witness: marker, then "A", with a query string that names another id
C4_Witness ==
    /\ xpc = "done"
    /\ ValidInput(inp)
    /\ PathYields(inp)
    /\ inp.prefix = PrefixHttps
    /\ UtmNonEmpty(inp) # << >>
    /\ Head(UtmNonEmpty(inp)).value = <<"B">>
    /\ xres.ret = Str(<<"A">>)

\* C5 as stated: when the path strategy yields nothing and the query string
\* holds the parameter utm_content, the function returns exactly the first
\* value of utm_content.
C5_Original ==
    (xpc = "done" /\ ValidInput(inp) /\ ~PathYields(inp)
        /\ UtmFields(inp) # << >>) =>
        xres.ret = Str(Head(UtmFields(inp)).value)

\* C5 amended: when the path strategy yields nothing, the function returns
\* exactly the first non-empty value of utm_content (percent-decoded); a
\* utm_content field with an empty value or without '=' counts as absent, so
\* with no non-empty value the result is None.  Path first, query second.
C5_QueryStrategy ==
    (xpc = "done" /\ ValidInput(inp) /\ ~PathYields(inp)
        /\ UtmNamed(inp) # << >>) =>
        /\ ~xres.raised
        /\ UtmNonEmpty(inp) # << >> =>
              /\ xres.ret = Str(Head(UtmNonEmpty(inp)).value)
              /\ xres.log = <<Info("extracted_from_query")>>
        /\ UtmNonEmpty(inp) = << >> => xres.ret = NoneVal

\* C5 witness: the marker is the last segment, two utm_content values
C5_Witness ==
    /\ xpc = "done"
    /\ ValidInput(inp)
    /\ MarkerPos(inp) # 0
    /\ ~PathYields(inp)
    /\ Len(UtmNonEmpty(inp)) = 2
    /\ UtmNonEmpty(inp)[1].value # UtmNonEmpty(inp)[2].value
    /\ xres.ret = Str(UtmNonEmpty(inp)[1].value)

\* C6: with neither a marker followed by a segment nor a utm_content
\* parameter, and for every input that cannot be parsed, the function
\* returns None, no exception escapes, and only the log is touched.
C6_AbsentResult ==
    (xpc = "done"
        /\ \/ ~ValidInput(inp)
           \/ (~PathYields(inp) /\ UtmNamed(inp) = << >>)) =>
        /\ ~xres.raised
        /\ xres.ret = NoneVal
        /\ xres.log # << >>
        /\ \A k \in 1..Len(xres.log) : xres.log[k].level = "ERROR"
        /\ IdleMain
        /\ dirs = {}

\* C6 witness: an input urlparse rejects, with a marker and a parameter
C6_Witness ==
    /\ xpc = "done"
    /\ inp.kind = "str"
    /\ inp.prefix = PrefixBad
    /\ inp.segs = <<Marker, <<"A">> >>
    /\ UtmNonEmpty(inp) # << >>
    /\ xres.ret = NoneVal
    /\ ~xres.raised

----------------------------------------------------------------------------
(* Spec: main and download_canva_design, one statement group per action *)

Init ==
    /\ inp = [kind |-> "none", prefix |-> PrefixNone, segs |-> << >>,
              params |-> << >>, fields |-> << >>, frag |-> << >>]
    /\ url = NoneVal
    /\ xpc = "unused"
    /\ xres = Returned(NoneVal, << >>)
    /\ IdleMain
    /\ dirs \in SUBSET {DefaultDir}

\* a call starts
StartHist == [hist EXCEPT !.runs = @ + 1]

\* main(): parser.parse_args()
MainStart ==
    /\ pc = "idle"
    /\ hist.runs < MaxRuns
    /\ \E u \in MainUrls, k \in ArgKeys, e \in EnvKeys,
          d \in {DefaultDir}, f \in MainFormats :
          args' = [url |-> u, api_key |-> k, env |-> e,
                   output_dir |-> d, format |-> f]
    /\ caller' = "main"
    /\ pc' = "main_key"
    /\ hist' = StartHist
    /\ UNCHANGED <<api_key, design_id, request, response, output_path, ret,
                   fs, dirs, log>>
    /\ UNCHANGED extractVars

\* main(): api_key = ... ; if not api_key: log, return
ResolveApiKey ==
    /\ pc = "main_key"
    /\ api_key' = PyOr(args.api_key, args.env)
    /\ IF ~Truthy(api_key')
       THEN /\ log' = log \o <<Error("no_api_key")>>
            /\ pc' = "done"
            /\ hist' = hist
       ELSE /\ log' = log
            /\ pc' = "main_extract"
            /\ hist' = [hist EXCEPT !.events = @ \o <<"credential">>]
    /\ UNCHANGED <<caller, args, design_id, request, response, output_path,
                   ret, fs, dirs>>
    /\ UNCHANGED extractVars

\* main(): design_id = extract_design_id(args.url); if not design_id: ...
AfterExtract(r) ==
    /\ design_id' = r.ret
    /\ IF r.raised
       THEN /\ pc' = "crashed"
            /\ log' = log \o r.log
            /\ hist' = hist
       ELSE IF IdMissing(r.ret)
       THEN /\ pc' = "done"
            /\ log' = log \o r.log \o <<Error("failed_to_extract")>>
            /\ hist' = hist
       ELSE /\ pc' = "dl_enter"
            /\ log' = log \o r.log
            /\ hist' = [hist EXCEPT !.events = @ \o <<"extract">>]

ExtractDesignId ==
    /\ pc = "main_extract"
    /\ AfterExtract(extract_design_id(args.url))
    /\ UNCHANGED <<caller, args, api_key, request, response, output_path,
                   ret, fs, dirs>>
    /\ UNCHANGED extractVars

\* download_canva_design(design_id, api_key, output_dir, format) called
\* by another program or a test, not through main
DownloadStart ==
    /\ pc = "idle"
    /\ hist.runs < MaxRuns
    /\ \E id \in DirectIds, d \in DirectDirs, f \in DirectFormats :
          /\ args' = [NoArgs EXCEPT !.output_dir = d, !.format = f]
          /\ design_id' = Str(id)
    /\ api_key' = Str(<<"K">>)
    /\ caller' = "direct"
    /\ pc' = "dl_enter"
    /\ hist' = StartHist
    /\ UNCHANGED <<request, response, output_path, ret, fs, dirs, log>>
    /\ UNCHANGED extractVars

\* download_canva_design: api_url, headers, payload, os.makedirs(...,
\* exist_ok=True), output_filename, output_path.  makedirs creates the
\* directory, or raises OSError, which is outside the try block
DownloadEnter ==
    /\ pc = "dl_enter"
    /\ request' = BuildRequest(design_id.val, api_key.val, args.format)
    /\ \/ /\ dirs' = dirs \cup {args.output_dir}
          /\ output_path' =
                 OutputPath(args.output_dir, design_id.val, args.format)
          /\ pc' = "dl_post"
       \/ /\ dirs' = dirs
          /\ output_path' = output_path
          /\ pc' = "crashed"
    /\ UNCHANGED <<caller, args, api_key, design_id, response, ret, fs, log,
                   hist>>
    /\ UNCHANGED extractVars

\* where download_canva_design returns to
AfterDownload == IF caller = "main" THEN "main_after" ELSE "done"

\* except requests.exceptions.RequestException as e: log, return None;
\* the status code is logged when the exception carries a response
ExceptLog(resp) ==
    <<Error("api_request_failed")>>
    \o (IF resp.kind \in {"response", "too_many_redirects"}
        THEN <<Error("status_code")>> ELSE << >>)

\* the requests requests.post puts on the wire when the service answers
\* with n redirects of status rs: the POST, then one request per redirect
\* followed, of which those after a 307 are the POST again
Wire(n, rs) ==
    LET followed == IF n > DEFAULT_REDIRECT_LIMIT
                    THEN DEFAULT_REDIRECT_LIMIT ELSE n
    IN  [wire |-> 1 + followed,
         resent |-> IF rs = 307 THEN followed ELSE 0]

\* response = requests.post(api_url, json=payload, headers=headers): one
\* call, in which requests follows the redirects the service answers with;
\* it returns the final response, or raises a RequestException
Post ==
    /\ pc = "dl_post"
    /\ request' = [request EXCEPT !.sent = TRUE]
    /\ \E n \in RedirectCounts, rs \in RedirectStatuses :
          /\ n = 0 => rs = 302
          /\ hist' = [hist EXCEPT !.posts = @ + 1,
                                  !.wire = @ + Wire(n, rs).wire,
                                  !.resent = @ + Wire(n, rs).resent,
                                  !.events = @ \o <<"post">>]
          /\ \/ /\ n <= DEFAULT_REDIRECT_LIMIT
                /\ \E st \in Statuses, body \in Payloads :
                      response' = Response(st, body)
                /\ pc' = "dl_status"
                /\ log' = log \o <<Info("requesting")>>
                /\ ret' = ret
             \/ /\ n <= DEFAULT_REDIRECT_LIMIT
                /\ response' = ConnectionError
                /\ pc' = AfterDownload
                /\ log' = log \o <<Info("requesting")>>
                              \o ExceptLog(response')
                /\ ret' = NoneVal
             \/ /\ n > DEFAULT_REDIRECT_LIMIT
                /\ response' = TooManyRedirects(rs)
                /\ pc' = AfterDownload
                /\ log' = log \o <<Info("requesting")>>
                              \o ExceptLog(response')
                /\ ret' = NoneVal
    /\ UNCHANGED <<caller, args, api_key, design_id, output_path, fs, dirs>>
    /\ UNCHANGED extractVars

\* response.raise_for_status()
RaiseForStatus ==
    /\ pc = "dl_status"
    /\ IF RaisesForStatus(response.status_code)
       THEN /\ pc' = AfterDownload
            /\ log' = log \o ExceptLog(response)
            /\ ret' = NoneVal
       ELSE /\ pc' = "dl_open"
            /\ log' = log
            /\ ret' = ret
    /\ UNCHANGED <<caller, args, api_key, design_id, request, response,
                   output_path, fs, dirs, hist>>
    /\ UNCHANGED extractVars

\* with open(output_path, 'wb') as f: the file is created or truncated, or
\* open raises OSError, which no except clause of the program catches
OpenFile ==
    /\ pc = "dl_open"
    /\ \/ /\ fs' = [fs EXCEPT
                      ![output_path] = File(OpenTruncate(@.data))]
          /\ hist' = [hist EXCEPT !.lastOk[output_path] = FileAbsent]
          /\ pc' = "dl_write"
       \/ /\ fs' = fs
          /\ hist' = hist
          /\ pc' = "crashed"
    /\ UNCHANGED <<caller, args, api_key, design_id, request, response,
                   output_path, ret, dirs, log>>
    /\ UNCHANGED extractVars

\* f.write(response.content); close; log; return output_path.  The write
\* stores all the bytes, or the first n of them and then raises OSError.
WriteFile ==
    /\ pc = "dl_write"
    /\ \E n \in 0..Len(response.content) :
          /\ fs' = [fs EXCEPT ![output_path] =
                       File(@.data \o SubSeq(response.content, 1, n))]
          /\ IF n = Len(response.content)
             THEN /\ pc' = AfterDownload
                  /\ ret' = Str(output_path)
                  /\ log' = log \o <<Info("downloaded")>>
                  /\ hist' = [hist EXCEPT
                                !.writes = @ + 1,
                                !.events = @ \o <<"write">>,
                                !.lastOk[output_path] =
                                    File(response.content)]
             ELSE /\ pc' = "crashed"
                  /\ ret' = ret
                  /\ log' = log
                  /\ hist' = [hist EXCEPT !.writes = @ + 1,
                                          !.events = @ \o <<"write">>]
    /\ UNCHANGED <<caller, args, api_key, design_id, request, response,
                   output_path, dirs>>
    /\ UNCHANGED extractVars

\* main(): logger.info("Sync completed.")
SyncCompleted ==
    /\ pc = "main_after"
    /\ log' = log \o <<Info("sync_completed")>>
    /\ pc' = "done"
    /\ UNCHANGED <<caller, args, api_key, design_id, request, response,
                   output_path, ret, fs, dirs, hist>>
    /\ UNCHANGED extractVars

\* the process ended (normally or by an uncaught exception); the files and
\* directories stay for the next invocation
NextRun ==
    /\ pc \in {"done", "crashed"}
    /\ hist.runs < MaxRuns
    /\ pc' = "idle"
    /\ caller' = "main"
    /\ args' = NoArgs
    /\ api_key' = NoneVal
    /\ design_id' = NoneVal
    /\ request' = NoRequest
    /\ response' = NoResponse
    /\ output_path' = << >>
    /\ ret' = NoneVal
    /\ log' = << >>
    /\ hist' = [hist EXCEPT !.posts = 0, !.wire = 0, !.resent = 0,
                            !.writes = 0, !.events = << >>, !.pre = fs]
    /\ UNCHANGED <<fs, dirs>>
    /\ UNCHANGED extractVars

Next ==
    \/ MainStart
    \/ ResolveApiKey
    \/ ExtractDesignId
    \/ DownloadStart
    \/ DownloadEnter
    \/ Post
    \/ RaiseForStatus
    \/ OpenFile
    \/ WriteFile
    \/ SyncCompleted
    \/ NextRun

Spec == Init /\ [][Next]_vars

----------------------------------------------------------------------------
(* Claims about download_canva_design and main, checked under Spec *)

\* download_canva_design was entered and has returned to its caller
DownloadReturned == output_path # << >> /\ pc \in {"main_after", "done"}

\* download_canva_design was entered and is over, by return or by exception
DownloadOver ==
    output_path # << >> /\ pc \in {"main_after", "done", "crashed"}

Is2xx(st) == 200 <= st /\ st <= 299

\* C1: on a response whose status is not 2xx (1xx, 3xx, 4xx, 5xx) the call
\* returns None and the output file is neither created nor modified.
C1_Non2xxLeavesFile ==
    (DownloadReturned /\ response.kind = "response"
        /\ ~Is2xx(response.status_code)) =>
        /\ ret = NoneVal
        /\ fs[output_path] = hist.pre[output_path]

\* C3: after any call, whatever step failed, the output file holds the whole
\* payload of this call or is exactly as it was before the call.
C3_NoPartialFile ==
    DownloadOver =>
        \/ fs[output_path] = hist.pre[output_path]
        \/ /\ response.kind = "response"
           /\ fs[output_path] = File(response.content)

\* p with every run of '/' replaced by one '/': the same file as p
RECURSIVE Collapse(_)
Collapse(p) ==
    IF Len(p) < 2 THEN p
    ELSE IF p[1] = "/" /\ p[2] = "/" THEN Collapse(Tail(p))
    ELSE <<Head(p)>> \o Collapse(Tail(p))

\* C7: on a successful response the body is written verbatim to the file
\* <output_dir>/<identifier>.<format in lower case>, the directory exists,
\* that file's path is returned, and the request carried the upper-case
\* format and pages 'all'.
C7_SuccessWritesPayload ==
    (DownloadReturned /\ response.kind = "response"
        /\ Is2xx(response.status_code)) =>
        LET ext == CASE args.format \in {"pdf", "PDF"} -> "pdf"
                     [] args.format \in {"png", "PNG"} -> "png"
                     [] args.format \in {"jpg", "JPG"} -> "jpg"
            wire == CASE args.format \in {"pdf", "PDF"} -> "PDF"
                      [] args.format \in {"png", "PNG"} -> "PNG"
                      [] args.format \in {"jpg", "JPG"} -> "JPG"
        IN  /\ Collapse(output_path) =
                  Collapse(args.output_dir \o <<"/">> \o design_id.val
                           \o <<".", ext>>)
            /\ ret = Str(output_path)
            /\ fs[output_path] = File(response.content)
            /\ args.output_dir \in dirs
            /\ request.sent
            /\ request.json = [format |-> wire, pages |-> "all"]

\* C8: after successful calls the file holds exactly the payload of the most
\* recent successful call on that path (overwrite, not append).
C8_OverwriteNotAppend ==
    \A p \in AllPaths : hist.lastOk[p].exists => fs[p] = hist.lastOk[p]

\* C8 witness: a successful call on a file that held another whole payload
C8_Witness ==
    /\ DownloadReturned
    /\ ret = Str(output_path)
    /\ hist.pre[output_path].exists
    /\ hist.pre[output_path].data \in Payloads
    /\ hist.pre[output_path].data # response.content
    /\ fs[output_path] = File(response.content)

\* the three failure classes of main
MissingCredential == ~Truthy(PyOr(args.api_key, args.env))
ExtractionFailed == ~MissingCredential /\ ~Truthy(design_id)
RequestFailed ==
    /\ request.sent
    /\ \/ response.kind \in {"error", "too_many_redirects"}
       \/ response.kind = "response" /\ response.status_code >= 400

\* C9: each failure class of main ends the same way: an error is logged,
\* nothing is reported as done after it, no file is written and main
\* returns normally.
C9_FailuresHandledAlike ==
    (caller = "main" /\ pc \in {"done", "crashed"}
        /\ (MissingCredential \/ ExtractionFailed \/ RequestFailed)) =>
        /\ pc = "done"
        /\ log # << >>
        /\ log[Len(log)].level = "ERROR"
        /\ \A k \in 1..Len(log) :
              log[k].msg \notin {"sync_completed", "downloaded"}
        /\ fs = hist.pre

\* the order of the steps of a run of main that reached the request
StepsInOrder ==
    (caller = "main" /\ request.sent) =>
        /\ Truthy(api_key)
        /\ Truthy(design_id)
        /\ SubSeq(hist.events, 1, 3) = <<"credential", "extract", "post">>
        /\ Len(hist.events) <= 4
        /\ Len(hist.events) = 4 => hist.events[4] = "write"

\* C10: a run of main sends at most one HTTP export request and writes at
\* most once; the request follows the credential check and the extraction,
\* in that order, both with a non-empty result; a failed request is not
\* sent again.  The export requests sent are the POST of each call of
\* requests.post and every POST sent again for a redirect.
C10_OneRequestInOrder ==
    /\ caller = "main" => hist.posts + hist.resent <= 1
    /\ caller = "main" => hist.writes <= 1
    /\ StepsInOrder

====
